---- MODULE Spec2Model ----
(***************************************************************************)
(* A model of the prefixset library: a binary radix tree of IP prefixes    *)
(* whose nodes carry a bitmap over prefix lengths (the glue map), the      *)
(* tree algorithms (add, remove, aggregate, search, intersect) and the     *)
(* PrefixSet facade with its operators.                                    *)
(*                                                                         *)
(* The address family is scaled down: addresses are MAX_LENGTH bits wide.  *)
(* An Option<T> is a sequence of length 0 (None) or 1 (Some).              *)
(***************************************************************************)
EXTENDS Integers, Sequences, FiniteSets, TLC

\* Address width W of the modelled family (IpPrefix::MAX_LENGTH, scaled down).
MAX_LENGTH == 2

\* Longest item list handed to insert_from and remove_from.
MaxItems == 2

Lengths == 0..MAX_LENGTH

AddrSpace == 0..(2^MAX_LENGTH - 1)

Min(a, b) == IF a <= b THEN a ELSE b

None == <<>>

Some(x) == <<x>>

is_some(o) == Len(o) = 1

(***************************************************************************)
(* Integer primitives of the address type (P::Bits).                       *)
(***************************************************************************)
RECURSIVE BitXorN(_, _, _)
\* a ^ b over n bits
BitXorN(a, b, n) ==
    IF n = 0 THEN 0
    ELSE (((a % 2) + (b % 2)) % 2) + (2 * BitXorN(a \div 2, b \div 2, n - 1))

RECURSIVE BitAndN(_, _, _)
\* a & b over n bits
BitAndN(a, b, n) ==
    IF n = 0 THEN 0
    ELSE ((a % 2) * (b % 2)) + (2 * BitAndN(a \div 2, b \div 2, n - 1))

RECURSIVE BitLen(_)
\* number of significant bits of x
BitLen(x) == IF x = 0 THEN 0 ELSE 1 + BitLen(x \div 2)

\* x.leading_zeros() of a MAX_LENGTH-bit integer
leading_zeros(x) == MAX_LENGTH - BitLen(x)

\* x.checked_shl(n).unwrap_or_default() of a MAX_LENGTH-bit integer
checked_shl(x, n) == IF n >= MAX_LENGTH THEN 0 ELSE (x * (2^n)) % (2^MAX_LENGTH)

\* x.checked_shr(n).unwrap_or_default() of a MAX_LENGTH-bit integer
checked_shr(x, n) == IF n >= MAX_LENGTH THEN 0 ELSE x \div (2^n)

\* !0 of the address type
AllOnes == 2^MAX_LENGTH - 1

(***************************************************************************)
(* Prefixes.                                                               *)
(***************************************************************************)
\* IpPrefix::new(addr, length); the length check is the caller's guard
Prefix_new(addr, length) == [bits |-> addr, length |-> length]

\* host bits of addr below the top `length` bits are zero
IsCanonical(p) == p.bits % (2^(MAX_LENGTH - p.length)) = 0

\* every canonical prefix of the family
AllPrefixes ==
    {p \in [bits : AddrSpace, length : Lengths] : IsCanonical(p)}

\* Result<T>: Ok(value) or Err(Error::PrefixLen)
Result_Ok(v) == [ok |-> TRUE, value |-> v]
Result_Err == [ok |-> FALSE, value |-> "PrefixLenError"]

\* Ipv4Prefix::new: reject length > MAX_LENGTH, otherwise keep addr as given
Ipv4Prefix_new(addr, length) ==
    IF length > MAX_LENGTH THEN Result_Err ELSE Result_Ok(Prefix_new(addr, length))

\* IpPrefix::new_from: keep the upper `length` bits of self
new_from(p, length) ==
    LET mask == checked_shl(AllOnes, MAX_LENGTH - length)
    IN  Prefix_new(BitAndN(p.bits, mask, MAX_LENGTH), length)


\* IntoSubprefixes::new: the index bound and the address step of the iterator
IntoSubprefixes_new(base, length) ==
    [base |-> base, length |-> length,
     max_index |-> checked_shr(AllOnes, (MAX_LENGTH - length) + base.length),
     step |-> checked_shl(1, MAX_LENGTH - length),
     next_index |-> 0]

RECURSIVE IntoSubprefixes_collect(_, _, _)
\* Drives IntoSubprefixes::next until it returns None, collecting the items.
\* next_index is a MAX_LENGTH-bit integer: `next_index += 1` at the maximum
\* value overflows.  With overflow checks (wrap = FALSE) that is a panic
\* before the item is returned; without them (wrap = TRUE) the index wraps
\* to 0 after the item and the iteration repeats for ever.  Either way the
\* iteration never completes: ok = FALSE, items = what was yielded first.
IntoSubprefixes_collect(it, acc, wrap) ==
    IF ~(it.base.length <= it.length /\ it.length <= MAX_LENGTH)
    THEN [ok |-> TRUE, items |-> acc]
    ELSE IF it.next_index <= it.max_index
    THEN LET item == Prefix_new(it.base.bits + (it.next_index * it.step), it.length)
         IN  IF it.next_index + 1 > AllOnes
             THEN [ok |-> FALSE, items |-> IF wrap THEN Append(acc, item) ELSE acc]
             ELSE IntoSubprefixes_collect([it EXCEPT !.next_index = @ + 1],
                                          Append(acc, item), wrap)
    ELSE [ok |-> TRUE, items |-> acc]

\* IpPrefix::into_subprefixes(length), run to completion
into_subprefixes(base, length, wrap) ==
    IntoSubprefixes_collect(IntoSubprefixes_new(base, length), <<>>, wrap)

(***************************************************************************)
(* Prefix ranges and the items a set accepts.                              *)
(***************************************************************************)
\* IpPrefixRange::new succeeds iff base.length <= lower <= upper <= W
IpPrefixRange_valid(base, lower, upper) ==
    ~(base.length > lower \/ lower > upper \/ upper > MAX_LENGTH)

\* a constructor that leaves out the test of lower against the base length
IpPrefixRange_new_unchecked_lower(base, lower, upper) ==
    IF lower > upper \/ upper > MAX_LENGTH
    THEN Result_Err
    ELSE Result_Ok([base |-> base, lower |-> lower, upper |-> upper])

\* IpPrefixRange::new: the range, or the invalid-prefix-length error
IpPrefixRange_new(base, lower, upper) ==
    IF base.length > lower \/ lower > upper \/ upper > MAX_LENGTH
    THEN Result_Err
    ELSE Result_Ok([base |-> base, lower |-> lower, upper |-> upper])

\* every valid prefix range over a canonical base
AllRanges ==
    {r \in [base : AllPrefixes, lower : Lengths, upper : Lengths] :
        IpPrefixRange_valid(r.base, r.lower, r.upper)}

\* p is base or a subprefix of base
IsSubprefix(base, p) ==
    /\ base.length <= p.length
    /\ p.bits \div (2^(MAX_LENGTH - base.length))
         = base.bits \div (2^(MAX_LENGTH - base.length))

\* the prefixes a range denotes
RangeMembers(r) ==
    {p \in AllPrefixes :
        IsSubprefix(r.base, p) /\ r.lower <= p.length /\ p.length <= r.upper}

(***************************************************************************)
(* Glue maps: a bitmap over the lengths 0..W, held as the set of set bits. *)
(***************************************************************************)
GlueMap_ZERO == {}

GlueMap_singleton(length) == {length}

GlueMap_and(a, b) == a \cap b

GlueMap_or(a, b) == a \cup b

GlueMap_not(a) == Lengths \ a

RECURSIVE GlueMap_from_range_loop(_, _, _)
\* From<PrefixRange> for GlueMap: set the bits lower..=upper one by one
GlueMap_from_range_loop(map, length, upper) ==
    LET m == GlueMap_or(map, GlueMap_singleton(length))
    IN  IF length + 1 <= MAX_LENGTH /\ length + 1 <= upper
        THEN GlueMap_from_range_loop(m, length + 1, upper)
        ELSE m

GlueMap_from_range(r) == GlueMap_from_range_loop(GlueMap_ZERO, r.lower, r.upper)

\* LengthMap: index of the first set bit at or after `start`, relative to it
first_one(map, start) ==
    IF \E i \in start..MAX_LENGTH : i \in map
    THEN Some((CHOOSE i \in start..MAX_LENGTH :
                   i \in map /\ \A j \in start..(i - 1) : j \notin map) - start)
    ELSE None

\* LengthMap: index of the first clear bit at or after `start`, relative to it
first_zero(map, start) ==
    IF \E i \in start..MAX_LENGTH : i \notin map
    THEN Some((CHOOSE i \in start..MAX_LENGTH :
                   i \notin map /\ \A j \in start..(i - 1) : j \in map) - start)
    ELSE None

\* a next_range that runs every range up to the top index
next_range_to_top(map, from) ==
    LET fo == first_one(map, from)
    IN  IF ~is_some(fo) THEN None
        ELSE Some([lower |-> from + fo[1], upper |-> MAX_LENGTH])

\* a next_range that ends every run at its first bit
next_range_short(map, from) ==
    LET fo == first_one(map, from)
    IN  IF ~is_some(fo) THEN None
        ELSE Some([lower |-> from + fo[1], upper |-> from + fo[1]])

\* GlueMap::next_range(from): the first run of set bits at or after `from`
next_range(map, from) ==
    LET fo == first_one(map, from)
    IN  IF ~is_some(fo) THEN None
        ELSE LET first == from + fo[1]
                 fz == first_zero(map, first)
                 last == IF is_some(fz) THEN (first + fz[1]) - 1 ELSE MAX_LENGTH
             IN  Some([lower |-> first, upper |-> last])


(***************************************************************************)
(* Nodes of the radix tree.                                                *)
(***************************************************************************)
Node_new(prefix, gluemap) ==
    [prefix |-> prefix, gluemap |-> gluemap, left |-> None, right |-> None]

\* From<P> for Node: a single prefix
new_singleton(prefix) == Node_new(prefix, GlueMap_singleton(prefix.length))

\* From<IpPrefixRange<P>> for Node: a prefix range
new_range(r) == Node_new(r.base, GlueMap_from_range(r))

\* a glue node that holds its own length
new_glue_holding(prefix) == Node_new(prefix, GlueMap_singleton(prefix.length))

new_glue(prefix) == Node_new(prefix, GlueMap_ZERO)

\* a comparison that takes the shorter length for the common length
compare_with_lengths_only(self, other) ==
    LET common == Min(self.prefix.length, other.prefix.length)
    IN  IF common = self.prefix.length /\ common = other.prefix.length
        THEN [kind |-> "Equal", common |-> common]
        ELSE IF common = self.prefix.length /\ common < other.prefix.length
        THEN [kind |-> "ChildOf", common |-> common]
        ELSE IF common < self.prefix.length /\ common = other.prefix.length
        THEN [kind |-> "ParentOf", common |-> common]
        ELSE IF common < self.prefix.length /\ common < other.prefix.length
        THEN [kind |-> "Divergent", common |-> common]
        ELSE [kind |-> "unreachable", common |-> common]

\* Node::compare_with: how other's prefix relates to self's
compare_with(self, other) ==
    LET min_lens == Min(self.prefix.length, other.prefix.length)
        diff_map == BitXorN(self.prefix.bits, other.prefix.bits, MAX_LENGTH)
        common   == Min(min_lens, leading_zeros(diff_map))
    IN  IF common = self.prefix.length /\ common = other.prefix.length
        THEN [kind |-> "Equal", common |-> common]
        ELSE IF common = self.prefix.length /\ common < other.prefix.length
        THEN [kind |-> "ChildOf", common |-> common]
        ELSE IF common < self.prefix.length /\ common = other.prefix.length
        THEN [kind |-> "ParentOf", common |-> common]
        ELSE IF common < self.prefix.length /\ common < other.prefix.length
        THEN [kind |-> "Divergent", common |-> common]
        ELSE [kind |-> "unreachable", common |-> common]

\* the two directions exchanged
branch_direction_swapped(self, bit_index) ==
    LET next_index == bit_index + 1
        mask == checked_shl(1, MAX_LENGTH - next_index)
    IN  IF BitAndN(self.prefix.bits, mask, MAX_LENGTH) = 0 THEN "Right" ELSE "Left"

\* Node::branch_direction: the bit of self's prefix after the first bit_index
branch_direction(self, bit_index) ==
    LET next_index == bit_index + 1
        mask == checked_shl(1, MAX_LENGTH - next_index)
    IN  IF BitAndN(self.prefix.bits, mask, MAX_LENGTH) = 0 THEN "Left" ELSE "Right"

RECURSIVE add(_, _)
\* Node::add: merge the sub-tree `other` into `self`, returning the new root
add(self, other) ==
    LET cmp == compare_with(self, other)
    IN  CASE cmp.kind = "Equal" ->
               LET s0 == [self EXCEPT !.gluemap = GlueMap_or(@, other.gluemap)]
                   s1 == IF is_some(other.left) THEN add(s0, other.left[1]) ELSE s0
               IN  IF is_some(other.right) THEN add(s1, other.right[1]) ELSE s1
          [] cmp.kind = "ChildOf" ->
               LET o == [other EXCEPT
                            !.gluemap = GlueMap_and(@, GlueMap_not(self.gluemap))]
               IN  IF branch_direction(o, cmp.common) = "Left"
                   THEN [self EXCEPT !.left =
                            IF is_some(self.left)
                            THEN Some(add(self.left[1], o)) ELSE Some(o)]
                   ELSE [self EXCEPT !.right =
                            IF is_some(self.right)
                            THEN Some(add(self.right[1], o)) ELSE Some(o)]
          [] cmp.kind = "ParentOf" ->
               LET s == [self EXCEPT
                            !.gluemap = GlueMap_and(@, GlueMap_not(other.gluemap))]
               IN  IF branch_direction(s, cmp.common) = "Left"
                   THEN [other EXCEPT !.left =
                            IF is_some(other.left)
                            THEN Some(add(other.left[1], s)) ELSE Some(s)]
                   ELSE [other EXCEPT !.right =
                            IF is_some(other.right)
                            THEN Some(add(other.right[1], s)) ELSE Some(s)]
          [] OTHER ->
               LET glue == new_glue(new_from(self.prefix, cmp.common))
               IN  IF branch_direction(self, cmp.common) = "Left"
                   THEN [glue EXCEPT !.left = Some(self), !.right = Some(other)]
                   ELSE [glue EXCEPT !.left = Some(other), !.right = Some(self)]

RECURSIVE add_all(_, _, _)
\* fold(self, |this, n| this.add(n)) over new nodes (p, gluemap), p in prefixes
add_all(self, prefixes, gluemap) ==
    IF prefixes = <<>> THEN self
    ELSE add_all(add(self, Node_new(Head(prefixes), gluemap)), Tail(prefixes), gluemap)

Ok(node) == [ok |-> TRUE, node |-> node]

Diverged(node) == [ok |-> FALSE, node |-> node]

RECURSIVE remove(_, _)

\* self.left = Some(child.remove(other)), when self has a left child
remove_in_left(r, other) ==
    IF r.ok /\ is_some(r.node.left)
    THEN LET rc == remove(r.node.left[1], other)
         IN  [ok |-> rc.ok, node |-> [r.node EXCEPT !.left = Some(rc.node)]]
    ELSE r

\* self.right = Some(child.remove(other)), when self has a right child
remove_in_right(r, other) ==
    IF r.ok /\ is_some(r.node.right)
    THEN LET rc == remove(r.node.right[1], other)
         IN  [ok |-> rc.ok, node |-> [r.node EXCEPT !.right = Some(rc.node)]]
    ELSE r

\* ParentOf | Equal: clear other's bits in self and in both sub-trees
remove_covered(this, oth) ==
    remove_in_right(
        remove_in_left(
            Ok([this EXCEPT !.gluemap = GlueMap_and(@, GlueMap_not(oth.gluemap))]),
            oth),
        oth)

\* the deaggregation of ChildOf: the bits of deaggr_mask leave self and are
\* added at every sub-prefix of self of other's length
deaggregate(this, deaggr_mask, subs) ==
    IF deaggr_mask = GlueMap_ZERO THEN Ok(this)
    ELSE IF ~subs.ok THEN Diverged(this)
    ELSE Ok(add_all([this EXCEPT !.gluemap = GlueMap_and(@, GlueMap_not(deaggr_mask))],
                    subs.items, deaggr_mask))

\* the deaggregation of ChildOf(common): one node per subprefix of self of
\* other's length, each holding the bits self shares with other
remove_deaggregate(this, oth) ==
    deaggregate(this, GlueMap_and(this.gluemap, oth.gluemap),
                into_subprefixes(this.prefix, oth.prefix.length, FALSE))

\* ChildOf(common): deaggregate, then descend towards other
remove_below(this, oth, common) ==
    LET r == remove_deaggregate(this, oth)
    IN  IF branch_direction(oth, common) = "Left"
        THEN remove_in_left(r, oth)
        ELSE remove_in_right(r, oth)

\* match self.compare_with(other)
remove_match(this, oth, cmp) ==
    CASE cmp.kind \in {"ParentOf", "Equal"} -> remove_covered(this, oth)
      [] cmp.kind = "ChildOf" -> remove_below(this, oth, cmp.common)
      [] OTHER -> Ok(this)

\* self = self.remove(&mut child), for a child taken from other
remove_child(r, child) ==
    IF r.ok /\ is_some(child) THEN remove(r.node, child[1]) ELSE r

\* Node::remove: subtract the sub-tree `other` from `self`: first other's
\* children (which are taken from other), then other's own node.  The result
\* is [ok, node]; ok = FALSE when a deaggregation's sub-prefix iteration
\* never completes (the index overflow of IntoSubprefixes).
remove(self, other) ==
    LET r == remove_child(remove_child(Ok(self), other.left), other.right)
        oth == [other EXCEPT !.left = None, !.right = None]
    IN  IF r.ok THEN remove_match(r.node, oth, compare_with(r.node, oth)) ELSE r


\* a pass that leaves every bit where it is
deduplicate_none(self, mask) == self

RECURSIVE deduplicate(_, _)
\* Node::deduplicate: clear the bits an ancestor already holds (mask)
deduplicate(self, mask) ==
    LET g == GlueMap_and(self.gluemap, GlueMap_not(mask))
        m == GlueMap_or(mask, g)
    IN  [prefix |-> self.prefix,
         gluemap |-> g,
         left |-> IF is_some(self.left)
                  THEN Some(deduplicate(self.left[1], m)) ELSE None,
         right |-> IF is_some(self.right)
                   THEN Some(deduplicate(self.right[1], m)) ELSE None]

\* a pass that pulls nothing up
aggregate_none(self) == self

RECURSIVE aggregate_top_down(_)
\* an aggregation pass that pulls bits up into a node before it visits the
\* node's children
aggregate_top_down(self) ==
    LET aggr_length == self.prefix.length + 1
        pull == /\ is_some(self.left) /\ is_some(self.right)
                /\ self.left[1].prefix.length = aggr_length
                /\ self.right[1].prefix.length = aggr_length
        aggr_bits == IF pull
                     THEN GlueMap_and(self.left[1].gluemap, self.right[1].gluemap)
                     ELSE GlueMap_ZERO
    IN  [prefix |-> self.prefix,
         gluemap |-> GlueMap_or(self.gluemap, aggr_bits),
         left |-> IF is_some(self.left)
                  THEN Some(aggregate_top_down(
                           [self.left[1] EXCEPT !.gluemap =
                               GlueMap_and(@, GlueMap_not(aggr_bits))]))
                  ELSE None,
         right |-> IF is_some(self.right)
                   THEN Some(aggregate_top_down(
                            [self.right[1] EXCEPT !.gluemap =
                                GlueMap_and(@, GlueMap_not(aggr_bits))]))
                   ELSE None]

RECURSIVE aggregate(_)
\* Node::aggregate: bottom-up, pull the bits two children of length
\* self.length + 1 share up into self
aggregate(self) ==
    LET l == IF is_some(self.left) THEN Some(aggregate(self.left[1])) ELSE None
        r == IF is_some(self.right) THEN Some(aggregate(self.right[1])) ELSE None
        aggr_length == self.prefix.length + 1
    IN  IF is_some(l) /\ is_some(r)
           /\ l[1].prefix.length = aggr_length /\ r[1].prefix.length = aggr_length
        THEN LET aggr_bits == GlueMap_and(l[1].gluemap, r[1].gluemap)
             IN  [prefix |-> self.prefix,
                  gluemap |-> GlueMap_or(self.gluemap, aggr_bits),
                  left |-> Some([l[1] EXCEPT !.gluemap =
                                    GlueMap_and(@, GlueMap_not(aggr_bits))]),
                  right |-> Some([r[1] EXCEPT !.gluemap =
                                    GlueMap_and(@, GlueMap_not(aggr_bits))])]
        ELSE [self EXCEPT !.left = l, !.right = r]

\* a pass that prunes nothing
compress_none(self) == Some(self)

RECURSIVE compress(_)
\* Node::compress: drop leaf glue nodes, bypass glue nodes with one child
compress(self) ==
    LET l == IF is_some(self.left) THEN compress(self.left[1]) ELSE None
        r == IF is_some(self.right) THEN compress(self.right[1]) ELSE None
        s == [self EXCEPT !.left = l, !.right = r]
    IN  IF s.gluemap = GlueMap_ZERO
        THEN CASE ~is_some(l) /\ ~is_some(r) -> None
               [] is_some(l) /\ ~is_some(r) -> l
               [] ~is_some(l) /\ is_some(r) -> r
               [] OTHER -> Some(s)
        ELSE Some(s)

\* the glue-pruning step of the one-pass aggregate
clean(self) ==
    IF self.gluemap # GlueMap_ZERO THEN Some(self)
    ELSE CASE ~is_some(self.left) /\ ~is_some(self.right) -> None
           [] is_some(self.left) /\ ~is_some(self.right) -> self.left
           [] ~is_some(self.left) /\ is_some(self.right) -> self.right
           [] OTHER -> Some(self)

RECURSIVE aggregate_mask(_, _)
\* The one-pass aggregate(mask): dedupe with ancestors, recurse, pull shared
\* sibling bits up, clean the children that lost bits, clean self.
aggregate_mask(self, mask) ==
    LET g == GlueMap_and(self.gluemap, GlueMap_not(mask))
        m == GlueMap_or(mask, g)
        l == IF is_some(self.left) THEN aggregate_mask(self.left[1], m) ELSE None
        r == IF is_some(self.right) THEN aggregate_mask(self.right[1], m) ELSE None
        aggr_length == self.prefix.length + 1
        aggr == IF is_some(l) /\ is_some(r)
                   /\ l[1].prefix.length = aggr_length
                   /\ r[1].prefix.length = aggr_length
                THEN GlueMap_and(l[1].gluemap, r[1].gluemap) ELSE GlueMap_ZERO
        l2 == IF aggr # GlueMap_ZERO
              THEN clean([l[1] EXCEPT !.gluemap = GlueMap_and(@, GlueMap_not(aggr))])
              ELSE l
        r2 == IF aggr # GlueMap_ZERO
              THEN clean([r[1] EXCEPT !.gluemap = GlueMap_and(@, GlueMap_not(aggr))])
              ELSE r
    IN  clean([prefix |-> self.prefix, gluemap |-> GlueMap_or(g, aggr),
               left |-> l2, right |-> r2])

RECURSIVE search_swapped(_, _)
\* search with the branch taken on the way down inverted
search_swapped(self, qnode) ==
    LET cmp == compare_with(self, qnode)
    IN  IF cmp.kind \in {"Equal", "ChildOf"}
           /\ GlueMap_and(self.gluemap, qnode.gluemap) = qnode.gluemap
        THEN TRUE
        ELSE IF cmp.kind = "ChildOf"
        THEN IF branch_direction(qnode, cmp.common) = "Right"
             THEN (IF is_some(self.left) THEN search_swapped(self.left[1], qnode) ELSE FALSE)
             ELSE (IF is_some(self.right) THEN search_swapped(self.right[1], qnode) ELSE FALSE)
        ELSE FALSE

RECURSIVE search(_, _)
\* Node::search(qnode).is_some(): is every length of qnode's map, at qnode's
\* prefix, covered by a node on the path to it
search(self, qnode) ==
    LET cmp == compare_with(self, qnode)
    IN  IF cmp.kind \in {"Equal", "ChildOf"}
           /\ GlueMap_and(self.gluemap, qnode.gluemap) = qnode.gluemap
        THEN TRUE
        ELSE IF cmp.kind = "ChildOf"
        THEN IF branch_direction(qnode, cmp.common) = "Left"
             THEN (IF is_some(self.left) THEN search(self.left[1], qnode) ELSE FALSE)
             ELSE (IF is_some(self.right) THEN search(self.right[1], qnode) ELSE FALSE)
        ELSE FALSE

RECURSIVE intersect_nodes(_, _)
\* Node::intersect_nodes: the part of the sub-tree at self that the single
\* node qnode covers, as a new sub-tree (None when the prefixes diverge)
intersect_nodes(self, qnode) ==
    LET cmp == compare_with(self, qnode)
    IN  IF cmp.kind = "Divergent" THEN None
        ELSE LET prefix == IF cmp.kind = "ChildOf" THEN qnode.prefix ELSE self.prefix
                 n0 == Node_new(prefix, GlueMap_and(self.gluemap, qnode.gluemap))
                 il == IF is_some(self.left)
                       THEN intersect_nodes(self.left[1], qnode) ELSE None
                 n1 == IF is_some(il) THEN add(n0, il[1]) ELSE n0
                 ir == IF is_some(self.right)
                       THEN intersect_nodes(self.right[1], qnode) ELSE None
             IN  Some(IF is_some(ir) THEN add(n1, ir[1]) ELSE n1)

RECURSIVE walk(_)
\* Node::walk: the node, then the walk of the left child, then of the right
walk(node) ==
    <<node>>
      \o (IF is_some(node.left) THEN walk(node.left[1]) ELSE <<>>)
      \o (IF is_some(node.right) THEN walk(node.right[1]) ELSE <<>>)

\* subtree_size: the number of nodes the recursive walk visits
subtree_size(root) == Len(walk(root))

\* a tree walk that starts with the left child only on its stack
Children_from_left_only(node) ==
    [this |-> Some(node), parent |-> None, children |-> <<node.left>>]

\* From<&Box<Node>> for Children: the node, no parent frame, and the stack
\* of its two children
Children_from(node) ==
    [this |-> Some(node), parent |-> None, children |-> <<node.left, node.right>>]

\* Children::default: what mem::take leaves behind
Children_default == [this |-> None, parent |-> None, children |-> <<>>]

RECURSIVE Children_next(_)
RECURSIVE Children_pop(_)
\* Children::next: yield `this` once; then pop children until one exists and
\* walk into it with self as its parent frame; then resume the parent
\* frame; None when there is none.  Returns the item and the iterator.
Children_next(it) ==
    IF is_some(it.this)
    THEN [item |-> it.this, it |-> [it EXCEPT !.this = None]]
    ELSE Children_pop(it)

\* the `while let Some(maybe_child) = self.children.pop()` loop and the
\* code after it
Children_pop(it) ==
    IF it.children # <<>>
    THEN LET maybe_child == it.children[Len(it.children)]
             popped == [it EXCEPT !.children = SubSeq(@, 1, Len(@) - 1)]
         IN  IF is_some(maybe_child)
             THEN Children_next([Children_from(maybe_child[1])
                                    EXCEPT !.parent = Some(popped)])
             ELSE Children_pop(popped)
    ELSE IF is_some(it.parent)
         THEN Children_next(it.parent[1])
         ELSE [item |-> None, it |-> it]

RECURSIVE Children_collect(_, _, _)
\* next() called until it returns None, at most `calls` times: the items,
\* and whether None was returned
Children_collect(it, acc, calls) ==
    IF calls = 0 THEN [ok |-> FALSE, items |-> acc]
    ELSE LET r == Children_next(it)
         IN  IF is_some(r.item)
             THEN Children_collect(r.it, Append(acc, r.item[1]), calls - 1)
             ELSE [ok |-> TRUE, items |-> acc]

RECURSIVE children(_)
\* Children (the tree walk), run to completion: the node, then the nodes of
\* the right sub-tree, then those of the left (the child stack is popped
\* from its end)
children(node) ==
    <<node>>
      \o (IF is_some(node.right) THEN children(node.right[1]) ELSE <<>>)
      \o (IF is_some(node.left) THEN children(node.left[1]) ELSE <<>>)

RECURSIVE Node_bitand_fold(_, _, _)
\* the fold of BitAnd for Box<Node>: intersect rhs with each node of self
Node_bitand_fold(root, nodes, rhs) ==
    IF nodes = <<>> THEN root
    ELSE LET new == intersect_nodes(rhs, Head(nodes))
             nxt == IF is_some(new)
                    THEN (IF is_some(root) THEN Some(add(root[1], new[1])) ELSE new)
                    ELSE root
         IN  Node_bitand_fold(nxt, Tail(nodes), rhs)

\* BitAnd for Box<Node>
Node_bitand(self, rhs) == Node_bitand_fold(None, children(self), rhs)

\* PartialEq for Node: prefix and glue map, not the children
Node_eq(m, n) == m.prefix = n.prefix /\ m.gluemap = n.gluemap


(***************************************************************************)
(* Iteration: per-node ranges, set-level ranges, prefixes.                 *)
(***************************************************************************)
RECURSIVE node_ranges_from(_, _, _)
\* the runs of set bits of the node's glue map at or after `from`, as ranges
node_ranges_from(node, from, acc) ==
    LET nr == next_range(node.gluemap, from)
    IN  IF ~is_some(nr) THEN acc
        ELSE LET r == [base |-> node.prefix, lower |-> nr[1].lower,
                       upper |-> nr[1].upper]
             IN  IF nr[1].upper >= MAX_LENGTH THEN Append(acc, r)
                 ELSE node_ranges_from(node, nr[1].upper + 1, Append(acc, r))

\* node.ranges(): the scan starts at the node's own length
node_ranges(node) == node_ranges_from(node, node.prefix.length, <<>>)

RECURSIVE ranges_of_nodes(_)
ranges_of_nodes(nodes) ==
    IF nodes = <<>> THEN <<>>
    ELSE node_ranges(Head(nodes)) \o ranges_of_nodes(Tail(nodes))

\* PrefixSet::ranges(), run to completion: walk the nodes, for each its ranges
ranges(root) == IF is_some(root) THEN ranges_of_nodes(children(root[1])) ELSE <<>>

RECURSIVE IntoIter_collect(_, _, _, _)
\* IntoIter of a prefix range: the sub-prefixes of base at each length from
\* `length` to upper, in turn
IntoIter_collect(r, length, acc, wrap) ==
    LET cur == into_subprefixes(r.base, length, wrap)
    IN  IF ~cur.ok THEN [ok |-> FALSE, items |-> acc \o cur.items]
        ELSE IF length + 1 <= r.upper
        THEN IntoIter_collect(r, length + 1, acc \o cur.items, wrap)
        ELSE [ok |-> TRUE, items |-> acc \o cur.items]

RECURSIVE prefixes_of_ranges(_, _, _)
prefixes_of_ranges(rs, acc, wrap) ==
    IF rs = <<>> THEN [ok |-> TRUE, items |-> acc]
    ELSE LET cur == IntoIter_collect(Head(rs), Head(rs).lower, <<>>, wrap)
         IN  IF ~cur.ok THEN [ok |-> FALSE, items |-> acc \o cur.items]
             ELSE prefixes_of_ranges(Tail(rs), acc \o cur.items, wrap)

\* PrefixSet::prefixes(), run to completion: expand each range in turn
prefixes(root, wrap) == prefixes_of_ranges(ranges(root), <<>>, wrap)

(***************************************************************************)
(* The set facade.  A PrefixSet is its root: Option<Box<Node>>.            *)
(***************************************************************************)
PrefixSet_new == None

\* the items a set accepts: a prefix or a prefix range
Items ==
    {[kind |-> "prefix", base |-> p, lower |-> p.length, upper |-> p.length] :
        p \in AllPrefixes}
    \cup {[kind |-> "range", base |-> r.base, lower |-> r.lower, upper |-> r.upper] :
        r \in AllRanges}

\* item.into(): the node of an item
ItemNode(item) ==
    IF item.kind = "prefix" THEN new_singleton(item.base) ELSE new_range(item)

\* the prefixes an item denotes
ItemMembers(item) == RangeMembers(item)

insert_node(root, new) == IF is_some(root) THEN Some(add(root[1], new)) ELSE Some(new)

remove_node(root, old) ==
    IF is_some(root)
    THEN LET r == remove(root[1], old) IN [ok |-> r.ok, root |-> Some(r.node)]
    ELSE [ok |-> TRUE, root |-> root]

\* a set that is never aggregated
PrefixSet_aggregate_skipped(root) == root

\* PrefixSet::aggregate: dedupe with ancestors, pull sibling bits up, prune glue
PrefixSet_aggregate(root) ==
    IF is_some(root) THEN compress(aggregate(deduplicate(root[1], GlueMap_ZERO)))
    ELSE root

PrefixSet_insert(root, item) == PrefixSet_aggregate(insert_node(root, ItemNode(item)))

PrefixSet_remove(root, item) ==
    LET r == remove_node(root, ItemNode(item))
    IN  [ok |-> r.ok, root |-> PrefixSet_aggregate(r.root)]

RECURSIVE insert_nodes(_, _)
\* the fold of insert_from: insert_node for each item in turn
insert_nodes(root, items) ==
    IF items = <<>> THEN root
    ELSE insert_nodes(insert_node(root, ItemNode(Head(items))), Tail(items))

\* an insert_from that leaves out its final aggregate
insert_from_unaggregated(root, items) == insert_nodes(root, items)

\* PrefixSet::insert_from: insert every item, then aggregate once
insert_from(root, items) == PrefixSet_aggregate(insert_nodes(root, items))

RECURSIVE remove_nodes(_, _)
\* the fold of remove_from: remove_node for each item in turn
remove_nodes(r, items) ==
    IF items = <<>> \/ ~r.ok THEN r
    ELSE remove_nodes(remove_node(r.root, ItemNode(Head(items))), Tail(items))

\* PrefixSet::remove_from: remove every item, then aggregate once
remove_from(root, items) ==
    LET r == remove_nodes([ok |-> TRUE, root |-> root], items)
    IN  [ok |-> r.ok, root |-> PrefixSet_aggregate(r.root)]

\* FromIterator for PrefixSet: a new set, then insert_from
from_iter(items) == insert_from(PrefixSet_new, items)

contains(root, prefix) ==
    IF is_some(root) THEN search(root[1], new_singleton(prefix)) ELSE FALSE

\* PrefixSet::len: prefixes().count()
len(root, wrap) ==
    LET ps == prefixes(root, wrap) IN [ok |-> ps.ok, n |-> Len(ps.items)]

is_empty(root) == Len(ranges(root)) = 0

zero == PrefixSet_new

\* Zero::is_zero: self.root.is_some()
is_zero(root) == is_some(root)

\* One::one: the range 0/0 with lengths 0..=W
one ==
    PrefixSet_insert(PrefixSet_new,
        [kind |-> "range", base |-> Prefix_new(0, 0), lower |-> 0, upper |-> MAX_LENGTH])

bitand(self, rhs) ==
    IF is_some(self) /\ is_some(rhs)
    THEN PrefixSet_aggregate(Node_bitand(self[1], rhs[1]))
    ELSE zero

bitor(self, rhs) ==
    CASE is_some(self) /\ is_some(rhs) -> PrefixSet_aggregate(Some(add(self[1], rhs[1])))
      [] is_some(self) /\ ~is_some(rhs) -> self
      [] ~is_some(self) /\ is_some(rhs) -> rhs
      [] OTHER -> zero

sub(self, rhs) ==
    IF is_some(self) /\ is_some(rhs)
    THEN LET r == remove(self[1], rhs[1])
         IN  [ok |-> r.ok, root |-> PrefixSet_aggregate(Some(r.node))]
    ELSE [ok |-> TRUE, root |-> self]

bitxor(self, rhs) == sub(bitor(self, rhs), bitand(self, rhs))

not(self) == sub(one, self)

\* PartialEq for PrefixSet: the two tree walks zipped, all pairs equal
eq(self, other) ==
    CASE is_some(self) /\ is_some(other) ->
           LET ms == children(self[1])
               ns == children(other[1])
           IN  \A i \in 1..Min(Len(ms), Len(ns)) : Node_eq(ms[i], ns[i])
      [] ~is_some(self) /\ ~is_some(other) -> TRUE
      [] OTHER -> FALSE

\* iter.all(|p| s.contains(p)) over a listing that may never complete
all_contained(ps, s) ==
    IF \E i \in 1..Len(ps.items) : ~contains(s, ps.items[i])
    THEN [ok |-> TRUE, val |-> FALSE]
    ELSE [ok |-> ps.ok, val |-> TRUE]

\* PartialOrd::partial_cmp
partial_cmp(self, other, wrap) ==
    IF eq(self, other) THEN [ok |-> TRUE, ord |-> "Equal"]
    ELSE LET fwd == all_contained(prefixes(self, wrap), other)
             bwd == all_contained(prefixes(other, wrap), self)
         IN  IF ~fwd.ok THEN [ok |-> FALSE, ord |-> "None"]
             ELSE IF fwd.val THEN [ok |-> TRUE, ord |-> "Less"]
             ELSE IF ~bwd.ok THEN [ok |-> FALSE, ord |-> "None"]
             ELSE IF bwd.val THEN [ok |-> TRUE, ord |-> "Greater"]
             ELSE [ok |-> TRUE, ord |-> "None"]

\* self <= other
le(self, other, wrap) ==
    LET c == partial_cmp(self, other, wrap)
    IN  [ok |-> c.ok, val |-> c.ord \in {"Less", "Equal"}]


(***************************************************************************)
(* The state machines.  Two sets a and b live under the public operations, *)
(* each beside a reference set of prefixes (the HashSet of the property    *)
(* tests).  Spec follows one set through insert, remove, clear and         *)
(* prefixes(); SpecOps builds two sets, as the property tests do, and then *)
(* applies one operator, which consumes its operands.                      *)
(***************************************************************************)
VARIABLES
    sa,      \* root of set a
    sb,      \* root of set b
    ca,      \* reference: the prefixes inserted into a and not removed since
    cb,      \* reference: the same for b
    built,   \* a holds inserted items only (no remove since new or clear)
    op,      \* the last operation
    arg,     \* the item of the last insert or remove
    res,     \* root of the set the last operator returned
    bres,    \* value the last comparison returned
    listing, \* items the last prefixes() yielded
    failed   \* the last operation never returned (panic or endless loop)

vars == <<sa, sb, ca, cb, built, op, arg, res, bres, listing, failed>>

NoItem == [kind |-> "none", base |-> Prefix_new(0, 0), lower |-> 0, upper |-> 0]

Init ==
    /\ sa = PrefixSet_new
    /\ sb = PrefixSet_new
    /\ ca = {}
    /\ cb = {}
    /\ built = TRUE
    /\ op = "new"
    /\ arg = NoItem
    /\ res = None
    /\ bres = FALSE
    /\ listing = <<>>
    /\ failed = FALSE

\* a.insert(item)
Insert(item) ==
    /\ ~failed
    /\ sa' = PrefixSet_insert(sa, item)
    /\ ca' = ca \cup ItemMembers(item)
    /\ op' = "insert"
    /\ arg' = item
    /\ listing' = <<>>
    /\ UNCHANGED <<sb, cb, built, res, bres, failed>>

\* a.remove(item)
Remove(item) ==
    /\ ~failed
    /\ LET r == PrefixSet_remove(sa, item)
       IN  /\ failed' = ~r.ok
           /\ sa' = IF r.ok THEN r.root ELSE sa
    /\ ca' = ca \ ItemMembers(item)
    /\ built' = FALSE
    /\ op' = "remove"
    /\ arg' = item
    /\ listing' = <<>>
    /\ UNCHANGED <<sb, cb, res, bres>>

\* a.clear()
Clear ==
    /\ ~failed
    /\ sa' = None
    /\ ca' = {}
    /\ built' = TRUE
    /\ op' = "clear"
    /\ arg' = NoItem
    /\ listing' = <<>>
    /\ UNCHANGED <<sb, cb, res, bres, failed>>

\* a.prefixes() run to its end (as len() does), in a build with overflow
\* checks (wrap = FALSE) or without
Enumerate ==
    /\ ~failed
    /\ \E wrap \in BOOLEAN :
          LET ps == prefixes(sa, wrap)
          IN  /\ failed' = ~ps.ok
              /\ listing' = ps.items
    /\ op' = "prefixes"
    /\ arg' = NoItem
    /\ UNCHANGED <<sa, sb, ca, cb, built, res, bres>>

Next ==
    \/ \E item \in Items : Insert(item)
    \/ \E item \in Items : Remove(item)
    \/ Clear
    \/ Enumerate

Spec == Init /\ [][Next]_vars

(***************************************************************************)
(* SpecOps: build a and b from collections of items, as the property tests *)
(* do, then apply one operator.                                            *)
(***************************************************************************)
InitOps ==
    /\ sa = PrefixSet_new
    /\ sb = PrefixSet_new
    /\ ca = {}
    /\ cb = {}
    /\ built = TRUE
    /\ op = "build"
    /\ arg = NoItem
    /\ res = None
    /\ bres = FALSE
    /\ listing = <<>>
    /\ failed = FALSE

\* a.insert(item) while the operands are built
BuildInsert(item) ==
    /\ op = "build"
    /\ sa' = PrefixSet_insert(sa, item)
    /\ ca' = ca \cup ItemMembers(item)
    /\ UNCHANGED <<sb, cb, built, op, arg, res, bres, listing, failed>>

\* a.clear() while the operands are built
BuildClear ==
    /\ op = "build"
    /\ sa' = None
    /\ ca' = {}
    /\ UNCHANGED <<sb, cb, built, op, arg, res, bres, listing, failed>>

\* b = a.clone()
CloneToB ==
    /\ op = "build"
    /\ sb' = sa
    /\ cb' = ca
    /\ UNCHANGED <<sa, ca, built, op, arg, res, bres, listing, failed>>

\* an operator that returns a set; r is [ok, root]
SetOperator(name, r) ==
    /\ op = "build"
    /\ op' = name
    /\ failed' = ~r.ok
    /\ res' = IF r.ok THEN r.root ELSE None
    /\ UNCHANGED <<sa, sb, ca, cb, built, arg, bres, listing>>

\* a | b
Union == SetOperator("or", [ok |-> TRUE, root |-> bitor(sa, sb)])

\* a & b
Intersection == SetOperator("and", [ok |-> TRUE, root |-> bitand(sa, sb)])

\* a - b
Difference == SetOperator("sub", sub(sa, sb))

\* a ^ b
SymmetricDifference == SetOperator("xor", bitxor(sa, sb))

\* !a
Complement == SetOperator("not", not(sa))

\* a == b
Equals ==
    /\ op = "build"
    /\ op' = "eq"
    /\ bres' = eq(sa, sb)
    /\ UNCHANGED <<sa, sb, ca, cb, built, arg, res, listing, failed>>

\* a <= b, in a build with overflow checks (wrap = FALSE) or without
LessEq ==
    /\ op = "build"
    /\ \E wrap \in BOOLEAN :
          LET r == le(sa, sb, wrap)
          IN  /\ failed' = ~r.ok
              /\ bres' = (r.ok /\ r.val)
    /\ op' = "le"
    /\ UNCHANGED <<sa, sb, ca, cb, built, arg, res, listing>>

NextOps ==
    \/ \E item \in Items : BuildInsert(item)
    \/ BuildClear
    \/ CloneToB
    \/ Union
    \/ Intersection
    \/ Difference
    \/ SymmetricDifference
    \/ Complement
    \/ Equals
    \/ LessEq

SpecOps == InitOps /\ [][NextOps]_vars

(***************************************************************************)
(* Observations used by the properties.                                    *)
(***************************************************************************)
\* the prefixes contains() reports
Members(root) == {p \in AllPrefixes : contains(root, p)}

\* prefixes() returns its last item and then None, in either build
Completes(root) == \A wrap \in BOOLEAN : prefixes(root, wrap).ok

\* the prefixes that prefixes() yields
Listed(root) ==
    LET ps == prefixes(root, FALSE) IN {ps.items[i] : i \in 1..Len(ps.items)}

\* a sequence without repeated items
NoRepeats(seq) == \A i, j \in 1..Len(seq) : i # j => seq[i] # seq[j]

\* the walk of a tree as (base, gluemap) pairs
Preorder(root) ==
    IF is_some(root)
    THEN LET ns == children(root[1])
         IN  [i \in 1..Len(ns) |-> <<ns[i].prefix, ns[i].gluemap>>]
    ELSE <<>>

\* the items of a listing, as a set
ItemsOf(seq) == {seq[i] : i \in 1..Len(seq)}

\* the nodes of a tree
NodesOf(root) == IF is_some(root) THEN ItemsOf(children(root[1])) ELSE {}

\* the nodes below a node
Descendants(n) == NodesOf(n.left) \cup NodesOf(n.right)

\* the trees a state holds: the operands and the operator's result
Trees == {sa, sb, res}

\* no length bit is set on both a node and a node below it
NoDuplicateLengths(root) ==
    \A n \in NodesOf(root) :
        \A d \in Descendants(n) : GlueMap_and(n.gluemap, d.gluemap) = GlueMap_ZERO

\* both children of n are one bit longer than n
HasSiblingPair(n) ==
    /\ is_some(n.left)
    /\ is_some(n.right)
    /\ n.left[1].prefix.length = n.prefix.length + 1
    /\ n.right[1].prefix.length = n.prefix.length + 1

\* two children one bit longer than their parent share no length bit
SiblingsDisjoint(root) ==
    \A n \in NodesOf(root) :
        HasSiblingPair(n) =>
            GlueMap_and(n.left[1].gluemap, n.right[1].gluemap) = GlueMap_ZERO

\* the two halves of a prefix
Halves(p) == {q \in AllPrefixes : q.length = p.length + 1 /\ IsSubprefix(p, q)}

\* the one range that holds exactly the two halves of p
HalvesRange(p) == <<[base |-> p, lower |-> p.length + 1, upper |-> p.length + 1]>>

\* a glue node holds no length
IsGlue(n) == n.gluemap = GlueMap_ZERO

\* every glue node has both children
GlueNodesBranch(root) ==
    \A n \in NodesOf(root) : IsGlue(n) => (is_some(n.left) /\ is_some(n.right))

\* the bit of p that follows its first k bits
BitAfter(p, k) == (p.bits \div (2^(MAX_LENGTH - k - 1))) % 2

\* child hangs below n on the side of `bit`
ChildWellPlaced(n, child, bit) ==
    is_some(child) =>
        /\ child[1].prefix.length > n.prefix.length
        /\ IsSubprefix(n.prefix, child[1].prefix)
        /\ BitAfter(child[1].prefix, n.prefix.length) = bit

\* every node holds lengths from its base length up, and its children are
\* strict subprefixes on the side their next bit selects
WellFormed(root) ==
    \A n \in NodesOf(root) :
        /\ n.prefix \in AllPrefixes
        /\ \A l \in n.gluemap : n.prefix.length <= l /\ l <= MAX_LENGTH
        /\ ChildWellPlaced(n, n.left, 0)
        /\ ChildWellPlaced(n, n.right, 1)

\* the maximal runs of set bits of a glue map, as <<first, last>> pairs
Runs(map) ==
    {run \in Lengths \X Lengths :
        /\ run[1] <= run[2]
        /\ \A l \in run[1]..run[2] : l \in map
        /\ (run[1] - 1) \notin map
        /\ (run[2] + 1) \notin map}

\* a list of ranges of node n: one per maximal run of its glue map, in
\* ascending order, each on the node's base and within base length..W
OneRangePerRun(n, rs) ==
    /\ Len(rs) = Cardinality(Runs(n.gluemap))
    /\ {<<rs[i].lower, rs[i].upper>> : i \in 1..Len(rs)} = Runs(n.gluemap)
    /\ \A i \in 1..Len(rs) :
          /\ rs[i].base = n.prefix
          /\ n.prefix.length <= rs[i].lower
          /\ rs[i].lower <= rs[i].upper
          /\ rs[i].upper <= MAX_LENGTH
    /\ \A i, j \in 1..Len(rs) : i < j => rs[i].upper < rs[j].lower

\* a <= b returns true, in a build with overflow checks and in one without
LeHolds(a, b) == \A wrap \in BOOLEAN : le(a, b, wrap).ok /\ le(a, b, wrap).val

\* a <= b is true whenever it returns
LeHoldsWhenReturned(a, b) == \A wrap \in BOOLEAN : le(a, b, wrap).ok => le(a, b, wrap).val

\* an item list in reverse
Reverse(seq) == [i \in 1..Len(seq) |-> seq[Len(seq) + 1 - i]]

\* a prefix, and a range, as an item
PrefixItem(p) == [kind |-> "prefix", base |-> p, lower |-> p.length, upper |-> p.length]
RangeItem(r) == [kind |-> "range", base |-> r.base, lower |-> r.lower, upper |-> r.upper]

RECURSIVE PrefixItemsOf(_)
\* the prefixes of S as a list of prefix items
PrefixItemsOf(S) ==
    IF S = {} THEN <<>>
    ELSE LET p == CHOOSE q \in S : TRUE
         IN  <<PrefixItem(p)>> \o PrefixItemsOf(S \ {p})

\* the ranges of a set as a list of range items
RangeItemsOf(root) ==
    LET rs == ranges(root) IN [i \in 1..Len(rs) |-> RangeItem(rs[i])]

\* the set collected from the members of root, one prefix at a time
FromPrefixes(root) == from_iter(PrefixItemsOf(Members(root)))

\* the set collected from the ranges of root
FromRanges(root) == from_iter(RangeItemsOf(root))

RECURSIVE insert_each(_, _)
\* set.insert(item) for each item of a list in turn
insert_each(root, items) ==
    IF items = <<>> THEN root
    ELSE insert_each(PrefixSet_insert(root, Head(items)), Tail(items))

\* the item lists of at most MaxItems items
ItemLists == UNION {[1..n -> Items] : n \in 0..MaxItems}

RECURSIVE remove_each(_, _)
\* set.remove(item) for each item of a list in turn; r is [ok, root]
remove_each(r, items) ==
    IF items = <<>> \/ ~r.ok THEN r
    ELSE remove_each(PrefixSet_remove(r.root, Head(items)), Tail(items))

\* the set after each of its member prefixes was removed from it
AllRemoved(root) ==
    remove_each([ok |-> TRUE, root |-> root], PrefixItemsOf(Members(root)))

(***************************************************************************)
(* The functions of the prefix, glue map and node layers, each applied to  *)
(* inputs drawn from the whole family: op names the call, arg holds its    *)
(* inputs and res what it returned.                                        *)
(***************************************************************************)
InitFn ==
    /\ sa = PrefixSet_new
    /\ sb = PrefixSet_new
    /\ ca = {}
    /\ cb = {}
    /\ built = TRUE
    /\ op = "none"
    /\ arg = NoItem
    /\ res = None
    /\ bres = FALSE
    /\ listing = <<>>
    /\ failed = FALSE

\* a call of function `name` on `input` that returned `output`; each
\* action makes one call from the initial state
Call(name, input, output) ==
    /\ op' = name
    /\ arg' = input
    /\ res' = output
    /\ UNCHANGED <<sa, sb, ca, cb, built, bres, listing, failed>>

\* every address paired with every length, host bits or not
RawPrefixes == [bits : AddrSpace, length : Lengths]

\* Ipv4Prefix::new(addr, length), for lengths up to one past MAX_LENGTH
NewPrefix ==
    /\ op = "none"
    /\ \E addr \in AddrSpace, length \in 0..(MAX_LENGTH + 1) :
           Call("new", [addr |-> addr, length |-> length], Ipv4Prefix_new(addr, length))

\* p.new_from(length), for lengths up to the length of p
NewFrom ==
    /\ op = "none"
    /\ \E p \in RawPrefixes, length \in Lengths :
           /\ length <= p.length
           /\ Call("new_from", [prefix |-> p, length |-> length], new_from(p, length))

\* IpPrefixRange::new(base, lower, upper), for bounds up to one past MAX_LENGTH
NewRange ==
    /\ op = "none"
    /\ \E base \in AllPrefixes, lower \in 0..(MAX_LENGTH + 1), upper \in 0..(MAX_LENGTH + 1) :
           Call("range_new", [base |-> base, lower |-> lower, upper |-> upper],
                IpPrefixRange_new(base, lower, upper))

\* base.into_subprefixes(length), driven until it ends, in a build with
\* overflow checks (wrap = FALSE) or without
Subprefixes ==
    /\ op = "none"
    /\ \E base \in AllPrefixes, length \in Lengths, wrap \in BOOLEAN :
           /\ base.length <= length
           /\ Call("into_subprefixes", [base |-> base, length |-> length, wrap |-> wrap],
                   into_subprefixes(base, length, wrap))

\* the nodes of the trees of the sets that hold the given prefix sets
TreeNodes(sets) == UNION {NodesOf(from_iter(PrefixItemsOf(S))) : S \in sets}

\* the bits that self shares with a node strictly below it
DeaggrMask(this, oth) ==
    IF compare_with(this, oth).kind = "ChildOf"
    THEN GlueMap_and(this.gluemap, oth.gluemap)
    ELSE GlueMap_ZERO

\* the deaggregation step of self.remove(other), for other strictly below
\* self and sharing bits with it
Deaggregate ==
    /\ op = "none"
    /\ \E this \in TreeNodes(SUBSET AllPrefixes), item \in Items :
           /\ DeaggrMask(this, ItemNode(item)) # GlueMap_ZERO
           /\ Call("deaggregate", [self |-> this, other |-> ItemNode(item)],
                   remove_deaggregate(this, ItemNode(item)))

\* self.add(other), for two sub-trees of sets of the family
NodeAdd ==
    /\ op = "none"
    /\ \E this \in TreeNodes(SUBSET AllPrefixes), oth \in TreeNodes(SUBSET AllPrefixes) :
           Call("add", [self |-> this, other |-> oth], add(this, oth))

\* the comparison of the nodes of every two canonical prefixes
Compare ==
    /\ op = "none"
    /\ \E p, q \in AllPrefixes :
           Call("compare_with",
                [self |-> Node_new(p, GlueMap_singleton(p.length)),
                 other |-> Node_new(q, GlueMap_singleton(q.length))],
                compare_with(Node_new(p, GlueMap_singleton(p.length)),
                             Node_new(q, GlueMap_singleton(q.length))))

\* next_range of every glue map from every length
NextRange ==
    /\ op = "none"
    /\ \E map \in SUBSET Lengths, from \in Lengths :
           Call("next_range", [map |-> map, from |-> from], next_range(map, from))

\* the nodes of the trees that the adds of the given prefix sets build,
\* before any aggregation
RawTreeNodes(sets) ==
    UNION {NodesOf(insert_nodes(PrefixSet_new, PrefixItemsOf(S))) : S \in sets}

\* the tree walk of a sub-tree, aggregated or not, with next() called once
\* more than the sub-tree has nodes
Walk ==
    /\ op = "none"
    /\ \E this \in TreeNodes(SUBSET AllPrefixes) \cup RawTreeNodes(SUBSET AllPrefixes) :
           Call("children", [self |-> this],
                Children_collect(Children_from(this), <<>>, subtree_size(this) + 1))

NextFn ==
    \/ NewPrefix
    \/ NewFrom
    \/ NewRange
    \/ Subprefixes
    \/ Deaggregate
    \/ NodeAdd
    \/ Walk
    \/ NextRange
    \/ Compare

SpecFn == InitFn /\ [][NextFn]_vars

(***************************************************************************)
(* Properties of one set, under Spec.                                      *)
(***************************************************************************)

\* C1: a set built by inserting prefixes and ranges (any number, any order,
\* repeats allowed) contains a prefix if and only if that prefix was inserted
\* or is a subprefix of an inserted range's base with a length in the range.
C1_contains_iff_inserted ==
    built => \A p \in AllPrefixes : contains(sa, p) <=> p \in ca

\* C1 happens: several items, a proper range among them, have been inserted;
\* some prefix is a member and some prefix is not.
C1_witness ==
    /\ built
    /\ op = "insert"
    /\ arg.kind = "range"
    /\ arg.lower < arg.upper
    /\ ca # ItemMembers(arg)
    /\ \E p \in ca : contains(sa, p)
    /\ \E q \in AllPrefixes \ ca : ~contains(sa, q)

\* The same holds after removes that returned: membership follows the
\* reference set through every insert, remove and clear.
MembersFollowReference ==
    ~failed => \A p \in AllPrefixes : contains(sa, p) <=> p \in ca

\* C2: prefixes() returns, and yields every member prefix exactly once and
\* nothing else, so that len() is the number of distinct member prefixes; a
\* set holding only a range base/L,L+2,L+2 has len 4.
C2_prefixes_exactly_members ==
    op = "prefixes" =>
        /\ ~failed
        /\ NoRepeats(listing)
        /\ ItemsOf(listing) = ca
        /\ Len(listing) = Cardinality(ca)
        /\ \A base \in AllPrefixes :
              (/\ base.length + 2 <= MAX_LENGTH
               /\ ca = RangeMembers([base |-> base, lower |-> base.length + 2,
                                     upper |-> base.length + 2]))
              => Len(listing) = 4

\* Whenever prefixes() does return, its listing is exactly the members, once
\* each.
ListingExactWhenReturned ==
    (op = "prefixes" /\ ~failed) =>
        /\ NoRepeats(listing)
        /\ ItemsOf(listing) = ca
        /\ Len(listing) = Cardinality(ca)

\* C3: remove(item) returns; afterwards no prefix of item is a member and
\* every other prefix that was a member still is, members held by an
\* aggregated range at an ancestor included.
C3_remove_frame ==
    [][op' = "remove" =>
          /\ ~failed'
          /\ \A p \in AllPrefixes :
                contains(sa', p) <=> (contains(sa, p) /\ p \notin ItemMembers(arg'))]_vars

\* Whenever remove does return, it removes the item's prefixes and nothing
\* else.
RemoveFrameWhenReturned ==
    [][(op' = "remove" /\ ~failed') =>
          \A p \in AllPrefixes :
             contains(sa', p) <=> (contains(sa, p) /\ p \notin ItemMembers(arg'))]_vars

(***************************************************************************)
(* Properties of the operators, under SpecOps.                             *)
(***************************************************************************)

\* C4: the prefixes enumerated by a | b are exactly the members of a or of b.
C4_union_enumerates_members ==
    op = "or" =>
        /\ Completes(res)
        /\ Listed(res) = Members(sa) \cup Members(sb)

\* The union's membership, as contains() reports it.
UnionMembers ==
    op = "or" => Members(res) = Members(sa) \cup Members(sb)

\* C5: the prefixes enumerated by a & b are exactly the members of both, and
\* the result is empty if either operand is.
C5_intersection_enumerates_members ==
    op = "and" =>
        /\ Completes(res)
        /\ Listed(res) = Members(sa) \cap Members(sb)
        /\ (sa = zero \/ sb = zero) => res = zero

\* The intersection's membership, as contains() reports it.
IntersectionMembers ==
    op = "and" =>
        /\ Members(res) = Members(sa) \cap Members(sb)
        /\ (sa = zero \/ sb = zero) => res = zero

\* C6: a - b returns; the prefixes it enumerates are exactly the members of
\* a that are not members of b; if b is empty the result is a.
C6_difference_enumerates_members ==
    op = "sub" =>
        /\ ~failed
        /\ Completes(res)
        /\ Listed(res) = Members(sa) \ Members(sb)
        /\ sb = zero => res = sa

\* The difference's membership whenever a - b returns.
DifferenceMembers ==
    (op = "sub" /\ ~failed) =>
        /\ Members(res) = Members(sa) \ Members(sb)
        /\ sb = zero => res = sa

\* C7: a ^ b returns and equals (a | b) - (a & b); its members are exactly
\* the prefixes of exactly one operand; a ^ a is empty.
C7_symmetric_difference ==
    op = "xor" =>
        /\ ~failed
        /\ LET d == sub(bitor(sa, sb), bitand(sa, sb)) IN d.ok /\ eq(res, d.root)
        /\ Members(res) = (Members(sa) \ Members(sb)) \cup (Members(sb) \ Members(sa))
        /\ sa = sb => is_empty(res)

\* The symmetric difference's membership whenever a ^ b returns.
SymmetricDifferenceMembers ==
    (op = "xor" /\ ~failed) =>
        /\ Members(res) = (Members(sa) \ Members(sb)) \cup (Members(sb) \ Members(sa))
        /\ sa = sb => is_empty(res)

\* C8: !a returns and is one - a; it contains exactly the prefixes that are
\* not members of a; !(!a) == a, !zero == one and !one == zero.
C8_complement ==
    op = "not" =>
        /\ ~failed
        /\ Members(res) = AllPrefixes \ Members(sa)
        /\ LET back == not(res) IN back.ok /\ eq(back.root, sa)
        /\ sa = zero => eq(res, one)
        /\ sa = one => eq(res, zero)

\* The complement's membership whenever !a returns.
ComplementMembers ==
    (op = "not" /\ ~failed) =>
        /\ Members(res) = AllPrefixes \ Members(sa)
        /\ sa = zero => res = one
        /\ sa = one => res = zero

\* C9: a == b is true exactly when the walks of the two trees are the same
\* sequence of (base, gluemap) pairs: as many nodes, and equal pairs at
\* every position.
C9_eq_iff_same_walk ==
    op = "eq" => (bres <=> Preorder(sa) = Preorder(sb))

\* C10: a <= b returns, and is true exactly when every member of a is
\* contained in b.
C10_le_iff_subset ==
    op = "le" =>
        /\ ~failed
        /\ bres <=> (\A p \in Members(sa) : contains(sb, p))

(***************************************************************************)
(* The shape of the tree, under Spec and SpecOps.                          *)
(***************************************************************************)

\* C11: sets built from different item lists that denote the same prefix
\* set are equal under == and have identical trees: the set built by the
\* operations so far, the set collected from its members one prefix at a
\* time (in either order) and the set collected from its ranges.
C11_canonical_form ==
    /\ FromPrefixes(sa) = sa
    /\ from_iter(Reverse(PrefixItemsOf(Members(sa)))) = sa
    /\ FromRanges(sa) = sa
    /\ eq(FromPrefixes(sa), FromRanges(sa))
    /\ eq(FromPrefixes(sa), sa)

\* a range was inserted, and the set of several ranges that results is the
\* set collected from its member prefixes
C11_witness ==
    /\ op = "insert"
    /\ arg.kind = "range"
    /\ arg.lower < arg.upper
    /\ Cardinality(Members(sa)) >= 4
    /\ Len(ranges(sa)) >= 2
    /\ FromPrefixes(sa) = sa

\* C12: aggregation is idempotent: a second aggregation pass leaves the tree
\* of a set exactly as the first pass left it, both after each insert or
\* remove and for the tree that the adds of all members build.
C12_aggregate_idempotent ==
    /\ PrefixSet_aggregate(sa) = sa
    /\ LET once == PrefixSet_aggregate(insert_nodes(PrefixSet_new,
                                           PrefixItemsOf(Members(sa))))
       IN  PrefixSet_aggregate(once) = once

\* a prefix of length MAX_LENGTH was inserted and the pass pulled its bit up
\* into a shorter node
C12_witness ==
    /\ op = "insert"
    /\ arg.kind = "prefix"
    /\ arg.base.length = MAX_LENGTH
    /\ \E n \in NodesOf(sa) :
          /\ n.prefix.length < MAX_LENGTH
          /\ MAX_LENGTH \in n.gluemap
          /\ IsSubprefix(n.prefix, arg.base)
    /\ PrefixSet_aggregate(sa) = sa

\* C13: after every mutating operation and every set operator, no length
\* bit is set on both a node and one of its descendants, in the operands
\* and in the result.
C13_no_duplicate_lengths == \A t \in Trees : NoDuplicateLengths(t)

\* the union of a set holding a length at a node with a set holding the same
\* length at a node below it, whose tree has several nodes
C13_witness ==
    /\ op = "or"
    /\ \E n \in NodesOf(sa) : \E d \in NodesOf(sb) :
          /\ n.prefix # d.prefix
          /\ IsSubprefix(n.prefix, d.prefix)
          /\ GlueMap_and(n.gluemap, d.gluemap) # GlueMap_ZERO
    /\ Cardinality(NodesOf(res)) >= 2
    /\ NoDuplicateLengths(res)

\* C14: after every mutating operation and every set operator, two children
\* that are both one bit longer than their parent share no length bit; a
\* set whose members are the two halves of a prefix p, inserted or united,
\* reports the single range p with lower = upper = length of p + 1.
C14_siblings_aggregated ==
    /\ \A t \in Trees : SiblingsDisjoint(t)
    /\ \A p \in AllPrefixes :
          /\ (p.length < MAX_LENGTH /\ ca = Halves(p)) => ranges(sa) = HalvesRange(p)
          /\ (/\ p.length < MAX_LENGTH
              /\ op = "or"
              /\ Members(sa) \cup Members(sb) = Halves(p)) => ranges(res) = HalvesRange(p)

\* the union of one half of a prefix of length 1 with the other half is
\* reported as one range
C14_witness ==
    /\ op = "or"
    /\ \E p \in AllPrefixes :
          /\ p.length = 1
          /\ Cardinality(Members(sa)) = 1
          /\ Cardinality(Members(sb)) = 1
          /\ Members(sa) \cup Members(sb) = Halves(p)
          /\ ranges(res) = HalvesRange(p)

\* C15: after every mutating operation and every set operator, no glue node
\* (a node holding no length) has fewer than two children, in the operands
\* and in the result.
C15_glue_nodes_have_two_children == \A t \in Trees : GlueNodesBranch(t)

\* a difference that returned a tree of fewer nodes than its left operand,
\* in which a glue node remains
C15_witness ==
    /\ op = "sub"
    /\ ~failed
    /\ Cardinality(NodesOf(res)) < Cardinality(NodesOf(sa))
    /\ \E n \in NodesOf(res) : IsGlue(n)
    /\ GlueNodesBranch(res)

\* C16: every node is well-formed: its gluemap holds only lengths at or
\* above its base length; each child's base is a strict subprefix of its
\* parent's; the bit after the parent's length is 0 in the left child's
\* base and 1 in the right child's.
C16_nodes_well_formed == \A t \in Trees : WellFormed(t)

\* a symmetric difference whose tree has a node with a left and a right
\* child and a node that holds several lengths
C16_witness ==
    /\ op = "xor"
    /\ ~failed
    /\ \E n \in NodesOf(res) : is_some(n.left) /\ is_some(n.right)
    /\ \E n \in NodesOf(res) : Cardinality(n.gluemap) >= 2
    /\ WellFormed(res)

\* C17: is_empty() is true exactly when the root is null, and exactly when
\* the set has no member; removing every prefix that was inserted, one
\* remove at a time, returns and leaves the root null; clear() leaves the
\* set empty.
C17_is_empty_iff_no_root ==
    /\ is_empty(sa) <=> sa = None
    /\ sa = None <=> Members(sa) = {}
    /\ built => (AllRemoved(sa).ok /\ AllRemoved(sa).root = None)
    /\ op = "clear" => is_empty(sa)

\* Emptiness, the null root and the absence of members agree in every
\* state; the removes of every member leave the root null whenever they
\* all return; clear() leaves the set empty.
EmptinessAgrees ==
    /\ is_empty(sa) <=> sa = None
    /\ sa = None <=> Members(sa) = {}
    /\ AllRemoved(sa).ok => AllRemoved(sa).root = None
    /\ op = "clear" => (is_empty(sa) /\ sa = None)

\* C18: insert_from(items), which aggregates once after all items, leaves
\* the set with the same tree (hence the same members) as insert(item) for
\* each item in turn; remove_from(items) returns exactly when the removes
\* of the items in turn all return, and leaves the same tree.
C18_bulk_equals_each ==
    (op = "build" /\ sb = None) =>
        \A items \in ItemLists :
            /\ insert_from(sa, items) = insert_each(sa, items)
            /\ remove_from(sa, items)
                 = remove_each([ok |-> TRUE, root |-> sa], items)

\* a set of several nodes for which some list of MaxItems items changes the
\* tree under insert_from, with an unaggregated tree that differs from the
\* final one, and changes it under a remove_from that returns
C18_witness ==
    /\ op = "build"
    /\ sb = None
    /\ Cardinality(NodesOf(sa)) >= 2
    /\ \E items \in ItemLists :
          /\ Len(items) = MaxItems
          /\ insert_from(sa, items) # sa
          /\ insert_nodes(sa, items) # insert_from(sa, items)
          /\ insert_from(sa, items) = insert_each(sa, items)
          /\ remove_from(sa, items).ok
          /\ remove_from(sa, items).root # sa
          /\ remove_from(sa, items).root # None
          /\ remove_from(sa, items) = remove_each([ok |-> TRUE, root |-> sa], items)

(***************************************************************************)
(* Iteration and order.                                                    *)
(***************************************************************************)

C20_intersection_below_union_above ==
    /\ op = "and" => (LeHolds(res, sa) /\ LeHolds(res, sb))
    /\ op = "or" => (LeHolds(sa, res) /\ LeHolds(sb, res))

\* Each of the four comparisons is true whenever it returns.
BelowAndAboveWhenReturned ==
    /\ op = "and" => (LeHoldsWhenReturned(res, sa) /\ LeHoldsWhenReturned(res, sb))
    /\ op = "or" => (LeHoldsWhenReturned(sa, res) /\ LeHoldsWhenReturned(sb, res))

(***************************************************************************)
(* Properties of the functions, under SpecFn, and of the set operators.    *)
(***************************************************************************)

\* C21: new(addr, length) fails with the invalid-length error when length
\* exceeds W, and otherwise returns the canonical prefix of addr: the top
\* `length` bits of addr, with every bit below them zero.
C21_new_truncates_host_bits ==
    op = "new" =>
        IF arg.length > MAX_LENGTH
        THEN res = Result_Err
        ELSE /\ res.ok
             /\ IsCanonical(res.value)
             /\ res.value = new_from(Prefix_new(arg.addr, arg.length), arg.length)

\* new rejects exactly the lengths above W and keeps the length it is
\* given; new_from returns a canonical prefix of the requested length.
NewChecksLength ==
    /\ op = "new" =>
          /\ res.ok <=> arg.length <= MAX_LENGTH
          /\ res.ok => (res.value.length = arg.length /\ res.value.bits = arg.addr)
    /\ op = "new_from" =>
          /\ IsCanonical(res)
          /\ res.length = arg.length
          /\ IsSubprefix(res, arg.prefix)

\* C22: IpPrefixRange::new(base, lower, upper) succeeds if and only if
\* base.length <= lower <= upper <= W, and then returns the range of those
\* three values; every violation returns the invalid-prefix-length error
\* and no range.
C22_range_new_validates ==
    op = "range_new" =>
        IF arg.base.length <= arg.lower /\ arg.lower <= arg.upper /\ arg.upper <= MAX_LENGTH
        THEN res = Result_Ok(arg)
        ELSE res = Result_Err

\* a range whose lower bound alone is wrong, shorter than its base, was
\* refused
C22_witness ==
    /\ op = "range_new"
    /\ arg.lower < arg.base.length
    /\ arg.lower <= arg.upper
    /\ arg.upper <= MAX_LENGTH
    /\ res = Result_Err

\* the subprefixes of base that have the given length
SubprefixesAt(base, length) ==
    {q \in AllPrefixes : q.length = length /\ IsSubprefix(base, q)}

\* C23: for a canonical base and a length L from base.length to W, the
\* sub-prefix iteration yields every subprefix of base of length L exactly
\* once, 2^(L - base.length) prefixes in all, and then ends without error;
\* base 0/0 with L = W included.
C23_subprefixes_complete ==
    op = "into_subprefixes" =>
        /\ res.ok
        /\ Len(res.items) = 2^(arg.length - arg.base.length)
        /\ NoRepeats(res.items)
        /\ ItemsOf(res.items) = SubprefixesAt(arg.base, arg.length)

\* The iteration is complete and ends for every pair except base 0/0 with
\* L = W, and for that pair it does not end.
SubprefixesCompleteBelowWholeSpace ==
    op = "into_subprefixes" =>
        IF arg.base.length = 0 /\ arg.length = MAX_LENGTH
        THEN ~res.ok
        ELSE /\ res.ok
             /\ Len(res.items) = 2^(arg.length - arg.base.length)
             /\ NoRepeats(res.items)
             /\ ItemsOf(res.items) = SubprefixesAt(arg.base, arg.length)

\* C24: for two sets a and b built by the public operations, a == b is true
\* if and only if a and b contain exactly the same prefixes.
C24_eq_iff_same_members ==
    op = "eq" => (bres <=> Members(sa) = Members(sb))

\* Sets that contain the same prefixes are equal under ==.
EqWhenSameMembers ==
    op = "eq" => (Members(sa) = Members(sb) => bres)

\* C25: is_zero(s) is true exactly when s is the empty set, whose root is
\* null, and so agrees with is_empty(); zero() satisfies is_zero and one()
\* does not.
C25_is_zero_iff_empty ==
    /\ is_zero(sa) <=> sa = None
    /\ is_zero(sa) <=> is_empty(sa)
    /\ is_zero(zero)
    /\ ~is_zero(one)

\* is_zero(s) is true exactly when s is not empty.
IsZeroIsNotEmpty ==
    /\ is_zero(sa) <=> ~is_empty(sa)
    /\ ~is_zero(zero)
    /\ is_zero(one)

\* the two subprefixes of p that are one bit longer than p, in the order
\* of their addresses
HalvesInOrder(p) ==
    << Prefix_new(p.bits, p.length + 1),
       Prefix_new(p.bits + 2^(MAX_LENGTH - (p.length + 1)), p.length + 1) >>

\* self after deaggregation one step deeper: the shared bits cleared from
\* self, and a node holding them added for each half of self's base
OneStepDeeper(this, oth) ==
    Ok(add_all([this EXCEPT !.gluemap =
                    GlueMap_and(@, GlueMap_not(DeaggrMask(this, oth)))],
               HalvesInOrder(this.prefix), DeaggrMask(this, oth)))

\* C26: in remove, when other lies strictly below self and the two share
\* bits, the shared bits are cleared from self and a node holding them is
\* added for each subprefix of self's base that is one bit longer than it,
\* before the remove descends into the child on other's side.
C26_deaggregate_one_step ==
    op = "deaggregate" => res = OneStepDeeper(arg.self, arg.other)

\* The deaggregation is the one-step one when other is one bit longer than
\* self; whenever it returns, it leaves the members of the one-step tree.
DeaggregateKeepsMembers ==
    op = "deaggregate" =>
        /\ arg.other.prefix.length = arg.self.prefix.length + 1
              => res = OneStepDeeper(arg.self, arg.other)
        /\ res.ok => Members(Some(res.node))
                       = Members(Some(OneStepDeeper(arg.self, arg.other).node))

\* the prefixes a sub-tree holds
NodeMembers(n) == Members(Some(n))

\* the child of n on the side that the bit of p after n's length selects
SlotOf(n, p) == IF BitAfter(p, n.prefix.length) = 0 THEN n.left ELSE n.right

\* the child of n on the other side
OtherSlotOf(n, p) == IF BitAfter(p, n.prefix.length) = 0 THEN n.right ELSE n.left

\* root keeps the base, the bits and the far child of `top`, and `low` is
\* placed, or merged, in the slot its next bit selects
PlacedBelow(root, top, low) ==
    /\ root.prefix = top.prefix
    /\ root.gluemap = top.gluemap
    /\ OtherSlotOf(root, low.prefix) = OtherSlotOf(top, low.prefix)
    /\ is_some(SlotOf(root, low.prefix))
    /\ IF is_some(SlotOf(top, low.prefix))
       THEN low.prefix \in {n.prefix : n \in NodesOf(SlotOf(root, low.prefix))}
       ELSE SlotOf(root, low.prefix)[1].prefix = low.prefix

\* root is a new glue node over a and b, at their common prefix
GluedAt(root, a, b, common) ==
    /\ IsGlue(root)
    /\ root.prefix = new_from(a.prefix, common)
    /\ root.prefix.length = common
    /\ IsSubprefix(root.prefix, a.prefix)
    /\ IsSubprefix(root.prefix, b.prefix)
    /\ {root.left, root.right} = {Some(a), Some(b)}
    /\ BitAfter(root.left[1].prefix, common) = 0
    /\ BitAfter(root.right[1].prefix, common) = 1

\* C27: add(self, other) returns a root determined by how the two bases
\* compare.  Equal: self, holding the bits of both, and no new node when
\* other has no children.  Other below self: self, with other placed or
\* merged in the child slot that other's next bit selects.  Other above
\* self: other, with self placed under it likewise.  Divergent: a new glue
\* node at the common prefix whose children are the two operands, the one
\* whose next bit is 0 on the left.  In each case the result holds the
\* prefixes of both.
C27_add_by_comparison ==
    op = "add" =>
        /\ NodeMembers(res) = NodeMembers(arg.self) \cup NodeMembers(arg.other)
        /\ LET cmp == compare_with(arg.self, arg.other)
           IN  CASE cmp.kind = "Equal" ->
                      /\ res.prefix = arg.self.prefix
                      /\ res.gluemap = GlueMap_or(arg.self.gluemap, arg.other.gluemap)
                      /\ (~is_some(arg.other.left) /\ ~is_some(arg.other.right))
                            => res = [arg.self EXCEPT !.gluemap = res.gluemap]
                 [] cmp.kind = "ChildOf" -> PlacedBelow(res, arg.self, arg.other)
                 [] cmp.kind = "ParentOf" -> PlacedBelow(res, arg.other, arg.self)
                 [] cmp.kind = "Divergent" ->
                      GluedAt(res, arg.self, arg.other, cmp.common)
                 [] OTHER -> FALSE

\* two sub-trees with children on divergent bases were added, the first
\* operand ending up on the right
C27_witness ==
    /\ op = "add"
    /\ compare_with(arg.self, arg.other).kind = "Divergent"
    /\ is_some(arg.self.left)
    /\ is_some(arg.other.left)
    /\ res.right = Some(arg.self)
    /\ IsGlue(res)

RECURSIVE Subtrees(_)
\* a node and every node below it
Subtrees(node) ==
    {node}
      \cup (IF is_some(node.left) THEN Subtrees(node.left[1]) ELSE {})
      \cup (IF is_some(node.right) THEN Subtrees(node.right[1]) ELSE {})

\* C28: the tree walk of a sub-tree yields every node, data and glue, exactly
\* once, each node before all of its descendants, and returns None after
\* exactly as many items as the recursive walk visits: it ends for every
\* tree, and the items are the nodes of the tree as it was.
C28_walk_yields_each_node_once ==
    op = "children" =>
        /\ res.ok
        /\ Len(res.items) = subtree_size(arg.self)
        /\ ItemsOf(res.items) = Subtrees(arg.self)
        /\ NoRepeats(res.items)
        /\ \A i, j \in 1..Len(res.items) :
              (i # j /\ res.items[j] \in Subtrees(res.items[i])) => i < j
        /\ res.items = children(arg.self)

\* the walk of a tree of at least five nodes, with a glue node and a node
\* that has one child only
C28_witness ==
    /\ op = "children"
    /\ res.ok
    /\ Len(res.items) >= 5
    /\ \E n \in ItemsOf(res.items) : IsGlue(n)
    /\ \E n \in ItemsOf(res.items) : is_some(n.left) /\ ~is_some(n.right)

\* the runs of set bits of the map with a lower bound of at least `from`
\* that no other such run contains
RunsFrom(map, from) ==
    {run \in Lengths \X Lengths :
        /\ from <= run[1] /\ run[1] <= run[2]
        /\ \A l \in run[1]..run[2] : l \in map
        /\ (run[1] = from \/ (run[1] - 1) \notin map)
        /\ (run[2] = MAX_LENGTH \/ (run[2] + 1) \notin map)}

AgreeOn(p, q, k) ==
    p.bits \div (2^(MAX_LENGTH - k)) = q.bits \div (2^(MAX_LENGTH - k))

\* the number of high-order bits on which the two prefixes agree, within
\* the shorter of their lengths
CommonBits(p, q) ==
    CHOOSE k \in 0..Min(p.length, q.length) :
        /\ AgreeOn(p, q, k)
        /\ \A m \in (k + 1)..Min(p.length, q.length) : ~AgreeOn(p, q, m)

\* the relation of two prefixes by their lengths and common bits
RelationOf(p, q) ==
    IF p = q THEN "Equal"
    ELSE IF p.length < q.length /\ AgreeOn(p, q, p.length) THEN "ChildOf"
    ELSE IF q.length < p.length /\ AgreeOn(p, q, q.length) THEN "ParentOf"
    ELSE "Divergent"

\* C30: comparing two canonical prefixes yields exactly one of Equal,
\* Subprefix(common), Superprefix(common), Divergent(common), never the
\* unreachable branch, with common the number of matching high-order bits,
\* at most the smaller length; common = W only with Equal, so the other
\* three carry common < W and the bit index common + 1 of the branch
\* direction is a bit position 1..W, its mask a shift by less than W.
C30_comparison_total_and_bit_valid ==
    op = "compare_with" =>
        /\ res.kind \in {"Equal", "ChildOf", "ParentOf", "Divergent"}
        /\ res.kind = RelationOf(arg.self.prefix, arg.other.prefix)
        /\ res.common = CommonBits(arg.self.prefix, arg.other.prefix)
        /\ res.common <= Min(arg.self.prefix.length, arg.other.prefix.length)
        /\ (res.common = MAX_LENGTH => res.kind = "Equal")
        /\ (res.kind # "Equal" =>
              /\ res.common < MAX_LENGTH
              /\ (res.common + 1) \in 1..MAX_LENGTH
              /\ (MAX_LENGTH - (res.common + 1)) \in 0..(MAX_LENGTH - 1)
              /\ checked_shl(1, MAX_LENGTH - (res.common + 1)) # 0)
        /\ (res.kind = "ChildOf" =>
              branch_direction(arg.other, res.common)
                = (IF BitAfter(arg.other.prefix, res.common) = 0 THEN "Left" ELSE "Right"))
        /\ (res.kind = "ParentOf" =>
              branch_direction(arg.self, res.common)
                = (IF BitAfter(arg.self.prefix, res.common) = 0 THEN "Left" ELSE "Right"))
        /\ (res.kind = "Divergent" =>
              branch_direction(arg.self, res.common)
                # branch_direction(arg.other, res.common))

\* two prefixes of full length that differ in their last bit only
C30_witness ==
    /\ op = "compare_with"
    /\ res.kind = "Divergent"
    /\ res.common = MAX_LENGTH - 1
    /\ arg.self.prefix.length = MAX_LENGTH
    /\ arg.other.prefix.length = MAX_LENGTH

====
